---- MODULE Spec2Model ----
(***************************************************************************)
(* binary.py: typed binary codec (_Binary) over a seekable byte cursor.   *)
(*                                                                         *)
(* Bytes are naturals 0..255, byte strings are sequences of bytes.         *)
(* Python integers are unbounded, and the 32- and 64-bit types exceed      *)
(* 32-bit integer arithmetic, so a Python value is a record                *)
(*   [kind, neg, dig]                                                      *)
(* where for kind "int" dig is the magnitude in base 256, most significant *)
(* digit first, without leading zeros (zero is <<>>, never negative);      *)
(* for "bool" dig is <<1>> or <<0>>; for "str" dig is the code points;     *)
(* for "bytes" dig is the bytes; "none" is None.                           *)
(*                                                                         *)
(* The model covers bool and the eight integer types.  The float and       *)
(* double methods take the same read(width)/write(pack) path with widths   *)
(* 4 and 8; their IEEE-754 conversion is outside the model.                *)
(***************************************************************************)
EXTENDS Integers, Sequences, FiniteSets, TLC

\* ---------------------------------------------------------------- bounds
MaxLen == 9        \* longest initial stream content of the read model
MaxSeek == 9       \* largest absolute seek target of the read model
MaxSeekW == 2      \* largest absolute seek target of the write models
MaxWrites == 1     \* write calls in one run of a write model

\* -------------------------------------------------------------- sequences
Rep(d, n) == [i \in 1..n |-> d]

Reverse(s) == [i \in 1..Len(s) |-> s[Len(s) + 1 - i]]

Take(s, n) == SubSeq(s, 1, IF n < Len(s) THEN n ELSE Len(s))

Min(a, b) == IF a < b THEN a ELSE b

Max(a, b) == IF a > b THEN a ELSE b

RECURSIVE StripZeros(_)
StripZeros(s) == IF s # <<>> /\ s[1] = 0 THEN StripZeros(Tail(s)) ELSE s

AllZero(s) == \A i \in 1..Len(s) : s[i] = 0

\* s + 1 on a fixed-width big-endian digit string, modulo 256^Len(s)
RECURSIVE Incr(_)
Incr(s) ==
    IF s = <<>> THEN <<>>
    ELSE LET n == Len(s) IN
         IF s[n] = 255 THEN Incr(SubSeq(s, 1, n - 1)) \o <<0>>
         ELSE SubSeq(s, 1, n - 1) \o <<s[n] + 1>>

\* 256^Len(s) - s on a fixed-width big-endian digit string (two's complement)
Negate(s) == Incr([i \in 1..Len(s) |-> 255 - s[i]])

\* ----------------------------------------------------------- Python values
None == [kind |-> "none", neg |-> FALSE, dig |-> <<>>]

PyInt(neg, mag) == [kind |-> "int", neg |-> neg, dig |-> mag]

PyBool(b) == [kind |-> "bool", neg |-> FALSE, dig |-> IF b THEN <<1>> ELSE <<0>>]

PyStr(cps) == [kind |-> "str", neg |-> FALSE, dig |-> cps]

PyBytes(bs) == [kind |-> "bytes", neg |-> FALSE, dig |-> bs]

True == PyBool(TRUE)

False == PyBool(FALSE)

\* PyObject_IsTrue
IsTrue(v) ==
    CASE v.kind = "none" -> FALSE
      [] v.kind = "bool" -> v.dig = <<1>>
      [] OTHER -> v.dig # <<>>

\* the value as an index-able integer (__index__): bool is a subclass of int
IsIntegral(v) == v.kind \in {"int", "bool"}

IndexNeg(v) == v.kind = "int" /\ v.neg

IndexMag(v) == StripZeros(v.dig)

\* ------------------------------------------------------- struct.Struct
\* A compiled format: byte order ("@" native for the one-byte formats
\* compiled without a prefix, ">" or "<"), format character and size.
Struct(order, code) ==
    [order |-> order, code |-> code,
     size |-> CASE code \in {"?", "b", "B"} -> 1
                [] code \in {"h", "H"} -> 2
                [] code \in {"i", "I"} -> 4
                [] code \in {"q", "Q"} -> 8]

Signed(st) == st.code \in {"b", "h", "i", "q"}

\* range check of the integer formats: -2^(8w-1) <= v < 2^(8w-1) signed,
\* 0 <= v < 2^(8w) unsigned
InRange(st, v) ==
    LET w == st.size
        m == IndexMag(v)
    IN IF Signed(st)
       THEN IF IndexNeg(v)
            THEN \/ Len(m) < w
                 \/ Len(m) = w /\ (m[1] < 128 \/ (m[1] = 128 /\ AllZero(Tail(m))))
            ELSE Len(m) < w \/ (Len(m) = w /\ m[1] < 128)
       ELSE ~IndexNeg(v) /\ Len(m) <= w

\* the w bytes of an in-range integer, most significant first
IntBytesBE(st, v) ==
    LET m == IndexMag(v)
        padded == Rep(0, st.size - Len(m)) \o m
    IN IF IndexNeg(v) THEN Negate(padded) ELSE padded

\* a variant of Ordered that ignores the byte order of the format
Ordered_big(st, bytesBE) == bytesBE

Ordered(st, bytesBE) == IF st.order = "<" THEN Reverse(bytesBE) ELSE bytesBE

\* a variant of pack that keeps the low bytes of an integer without
\* checking its range
pack_wrapping(st, v) ==
    IF st.code = "?"
    THEN [ok |-> TRUE, data |-> IF IsTrue(v) THEN <<1>> ELSE <<0>>]
    ELSE IF IsIntegral(v)
    THEN LET m == Rep(0, st.size) \o IndexMag(v)
             low == SubSeq(m, Len(m) - st.size + 1, Len(m))
         IN [ok |-> TRUE,
             data |-> Ordered(st, IF IndexNeg(v) THEN Negate(low) ELSE low)]
    ELSE [ok |-> FALSE, data |-> <<>>]

\* Struct.pack(v): [ok, data]; ok = FALSE is struct.error
pack(st, v) ==
    IF st.code = "?"
    THEN [ok |-> TRUE, data |-> IF IsTrue(v) THEN <<1>> ELSE <<0>>]
    ELSE IF IsIntegral(v) /\ InRange(st, v)
    THEN [ok |-> TRUE, data |-> Ordered(st, IntBytesBE(st, v))]
    ELSE [ok |-> FALSE, data |-> <<>>]

\* a variant of UnpackValue that reads every integer as unsigned
UnpackValue_unsigned(st, data) ==
    IF st.code = "?"
    THEN PyBool(data[1] # 0)
    ELSE PyInt(FALSE, StripZeros(Ordered(st, data)))

\* the value of exactly st.size bytes
UnpackValue(st, data) ==
    IF st.code = "?"
    THEN PyBool(data[1] # 0)
    ELSE LET be == Ordered(st, data)
         IN IF Signed(st) /\ be[1] >= 128
            THEN PyInt(TRUE, StripZeros(Negate(be)))
            ELSE PyInt(FALSE, StripZeros(be))

\* a variant of unpack that zero-pads a short buffer instead of failing
unpack_padded(st, data) ==
    [ok |-> TRUE,
     val |-> UnpackValue(st, Take(data, st.size) \o Rep(0, st.size - Len(data)))]

\* Struct.unpack(data)[0]: [ok, val]; ok = FALSE is struct.error
\* ("unpack requires a buffer of <size> bytes")
unpack(st, data) ==
    IF Len(data) # st.size
    THEN [ok |-> FALSE, val |-> None]
    ELSE [ok |-> TRUE, val |-> UnpackValue(st, data)]

\* ------------------------------------------------- endianness profiles
BIG_ENDIAN ==
    [symbol |-> ">",
     bool |-> Struct("@", "?"), byte |-> Struct("@", "b"), ubyte |-> Struct("@", "B"),
     short |-> Struct(">", "h"), ushort |-> Struct(">", "H"),
     int |-> Struct(">", "i"), uint |-> Struct(">", "I"),
     long |-> Struct(">", "q"), ulong |-> Struct(">", "Q")]

LITTLE_ENDIAN ==
    [symbol |-> "<",
     bool |-> BIG_ENDIAN["bool"], byte |-> BIG_ENDIAN["byte"], ubyte |-> BIG_ENDIAN["ubyte"],
     short |-> Struct("<", "h"), ushort |-> Struct("<", "H"),
     int |-> Struct("<", "i"), uint |-> Struct("<", "I"),
     long |-> Struct("<", "q"), ulong |-> Struct("<", "Q")]

Profiles == {BIG_ENDIAN, LITTLE_ENDIAN}

IntTypes == {"byte", "ubyte", "short", "ushort", "int", "uint", "long", "ulong"}

Types == {"bool"} \cup IntTypes

\* ------------------------------------------------------ the byte cursor
\* A stream is [buf, pos]: io.BytesIO as inherited by Buffer.  The cursor
\* may stand beyond the end; read() there returns b"".
tell(s) == s.pos

seek(s, position) == [s EXCEPT !.pos = position]

\* read(length): [s, data]; a negative length reads to the end of the stream
read(s, length) ==
    LET avail == Max(Len(s.buf) - s.pos, 0)
        n == IF length < 0 THEN avail ELSE Min(length, avail)
    IN [s |-> [s EXCEPT !.pos = s.pos + n],
        data |-> SubSeq(s.buf, s.pos + 1, s.pos + n)]

\* a variant of write that inserts the data at the cursor instead of
\* overwriting what is there
write_inserting(s, data) ==
    LET gap == Rep(0, s.pos - Len(s.buf))
    IN [buf |-> Take(s.buf, s.pos) \o gap \o data \o SubSeq(s.buf, s.pos + 1, Len(s.buf)),
        pos |-> s.pos + Len(data)]

\* write(data): overwrites in place, grows the stream as needed, zero-fills
\* a gap left by a cursor beyond the end; writing b"" changes nothing
write(s, data) ==
    IF data = <<>> THEN s
    ELSE LET end == s.pos + Len(data)
             newlen == Max(Len(s.buf), end)
         IN [buf |-> [i \in 1..newlen |->
                        IF i > s.pos /\ i <= end THEN data[i - s.pos]
                        ELSE IF i <= Len(s.buf) THEN s.buf[i]
                        ELSE 0],
             pos |-> end]

\* ------------------------------------------------------------- _Binary
\* Every method yields [s, ok, val]: the stream after the call, whether it
\* returned (ok) or raised, and the value returned.

\* a variant of peek that leaves the cursor where the read stopped
peek_noseek(s, length) ==
    LET r == read(s, length)
    IN [s |-> r.s, data |-> r.data]

\* peek(length): tell, read, seek back
peek(s, length) ==
    LET position == tell(s)
        r == read(s, length)
    IN [s |-> seek(r.s, position), data |-> r.data]

\* a variant of peek_T that consumes the bytes it decodes
peek_T_consuming(s, endian, T) ==
    LET r == read(s, endian[T].size)
        u == unpack(endian[T], r.data)
    IN [s |-> r.s, ok |-> u.ok, val |-> u.val]

peek_T(s, endian, T) ==
    LET p == peek(s, endian[T].size)
        u == unpack(endian[T], p.data)
    IN [s |-> p.s, ok |-> u.ok, val |-> u.val]

\* a variant of read_T that puts the cursor back when the decoding fails
read_T_restoring(s, endian, T) ==
    LET r == read(s, endian[T].size)
        u == unpack(endian[T], r.data)
    IN [s |-> IF u.ok THEN r.s ELSE s, ok |-> u.ok, val |-> u.val]

read_T(s, endian, T) ==
    LET r == read(s, endian[T].size)
        u == unpack(endian[T], r.data)
    IN [s |-> r.s, ok |-> u.ok, val |-> u.val]

write_T(s, endian, T, data) ==
    LET p == pack(endian[T], data)
    IN IF p.ok THEN [s |-> write(s, p.data), ok |-> TRUE, val |-> None]
       ELSE [s |-> s, ok |-> FALSE, val |-> None]

\* ------------------------------------------------------- text codecs
Encodings == {"utf-8", "iso-8859-1", "utf-16be"}

ErrorPolicies == {"ignore", "strict"}

IsCont(b) == b >= 128 /\ b <= 191

\* the UTF-8 sequence starting at b[i]: [n, cp], n = 0 when b[i] does not
\* start a well-formed sequence
Utf8At(b, i) ==
    LET b0 == b[i]
        has(k) == i + k <= Len(b)
        b1 == b[i + 1]
        b2 == b[i + 2]
        b3 == b[i + 3]
        bad == [n |-> 0, cp |-> 0]
    IN IF b0 < 128 THEN [n |-> 1, cp |-> b0]
       ELSE IF b0 >= 194 /\ b0 <= 223
       THEN IF has(1) /\ IsCont(b1)
            THEN [n |-> 2, cp |-> (b0 - 192) * 64 + (b1 - 128)]
            ELSE bad
       ELSE IF b0 >= 224 /\ b0 <= 239
       THEN IF /\ has(2)
               /\ b1 >= (IF b0 = 224 THEN 160 ELSE 128)
               /\ b1 <= (IF b0 = 237 THEN 159 ELSE 191)
               /\ IsCont(b2)
            THEN [n |-> 3, cp |-> (b0 - 224) * 4096 + (b1 - 128) * 64 + (b2 - 128)]
            ELSE bad
       ELSE IF b0 >= 240 /\ b0 <= 244
       THEN IF /\ has(3)
               /\ b1 >= (IF b0 = 240 THEN 144 ELSE 128)
               /\ b1 <= (IF b0 = 244 THEN 143 ELSE 191)
               /\ IsCont(b2) /\ IsCont(b3)
            THEN [n |-> 4, cp |-> (b0 - 240) * 262144 + (b1 - 128) * 4096
                                  + (b2 - 128) * 64 + (b3 - 128)]
            ELSE bad
       ELSE bad

IsHighSurrogate(u) == u >= 55296 /\ u <= 56319

IsLowSurrogate(u) == u >= 56320 /\ u <= 57343

\* the UTF-16-BE code point starting at b[i]: [n, cp], n = 0 when malformed
Utf16At(b, i) ==
    LET bad == [n |-> 0, cp |-> 0]
        u0 == b[i] * 256 + b[i + 1]
        u1 == b[i + 2] * 256 + b[i + 3]
    IN IF i + 1 > Len(b) THEN bad
       ELSE IF IsLowSurrogate(u0) THEN bad
       ELSE IF IsHighSurrogate(u0)
       THEN IF i + 3 <= Len(b) /\ IsLowSurrogate(u1)
            THEN [n |-> 4, cp |-> 65536 + (u0 - 55296) * 1024 + (u1 - 56320)]
            ELSE bad
       ELSE [n |-> 2, cp |-> u0]

\* bytes skipped by the "ignore" handler at a malformed position
SkipAt(b, i, encoding) ==
    IF encoding = "utf-16be" THEN Min(2, Len(b) + 1 - i) ELSE 1

CharAt(b, i, encoding) ==
    CASE encoding = "utf-8" -> Utf8At(b, i)
      [] encoding = "utf-16be" -> Utf16At(b, i)
      [] encoding = "iso-8859-1" -> [n |-> 1, cp |-> b[i]]

\* bytes.decode(encoding, error): [ok, text]; ok = FALSE is UnicodeDecodeError
RECURSIVE DecodeFrom(_, _, _, _)
DecodeFrom(b, i, encoding, error) ==
    IF i > Len(b) THEN [ok |-> TRUE, text |-> <<>>]
    ELSE LET c == CharAt(b, i, encoding)
         IN IF c.n > 0
            THEN LET rest == DecodeFrom(b, i + c.n, encoding, error)
                 IN [ok |-> rest.ok, text |-> IF rest.ok THEN <<c.cp>> \o rest.text ELSE <<>>]
            ELSE IF error = "strict" THEN [ok |-> FALSE, text |-> <<>>]
            ELSE DecodeFrom(b, i + SkipAt(b, i, encoding), encoding, error)

decode(b, encoding, error) == DecodeFrom(b, 1, encoding, error)

\* the bytes of one code point; <<>> when the encoding cannot represent it
EncodeChar(cp, encoding) ==
    LET surrogate == cp >= 55296 /\ cp <= 57343
    IN CASE encoding = "iso-8859-1" -> IF cp < 256 THEN <<cp>> ELSE <<>>
         [] encoding = "utf-8" ->
              IF cp < 128 THEN <<cp>>
              ELSE IF cp < 2048 THEN <<192 + cp \div 64, 128 + (cp % 64)>>
              ELSE IF surrogate THEN <<>>
              ELSE IF cp < 65536
              THEN <<224 + cp \div 4096, 128 + ((cp \div 64) % 64), 128 + (cp % 64)>>
              ELSE <<240 + cp \div 262144, 128 + ((cp \div 4096) % 64),
                     128 + ((cp \div 64) % 64), 128 + (cp % 64)>>
         [] encoding = "utf-16be" ->
              IF surrogate THEN <<>>
              ELSE IF cp < 65536 THEN <<cp \div 256, cp % 256>>
              ELSE LET hi == 55296 + (cp - 65536) \div 1024
                       lo == 56320 + ((cp - 65536) % 1024)
                   IN <<hi \div 256, hi % 256, lo \div 256, lo % 256>>

\* str.encode(encoding): [ok, data]; ok = FALSE is UnicodeEncodeError
RECURSIVE encode(_, _)
encode(text, encoding) ==
    IF text = <<>> THEN [ok |-> TRUE, data |-> <<>>]
    ELSE LET c == EncodeChar(text[1], encoding)
             rest == encode(Tail(text), encoding)
         IN IF c = <<>> \/ ~rest.ok THEN [ok |-> FALSE, data |-> <<>>]
            ELSE [ok |-> TRUE, data |-> c \o rest.data]

\* a variant of CutAtNul that drops the NUL characters and keeps the rest
RECURSIVE CutAtNul_dropping(_)
CutAtNul_dropping(text) ==
    IF text = <<>> THEN <<>>
    ELSE (IF text[1] = 0 THEN <<>> ELSE <<text[1]>>) \o CutAtNul_dropping(Tail(text))

\* data[:data.index('\x00')], or data when it holds no NUL
RECURSIVE CutAtNul(_)
CutAtNul(text) ==
    IF text = <<>> \/ text[1] = 0 THEN <<>>
    ELSE <<text[1]>> \o CutAtNul(Tail(text))

\* ------------------------------------------------------------ binascii
\* a variant of HexDigit that renders in upper case, "A".."F" = 65..70
HexDigit_upper(n) == IF n < 10 THEN 48 + n ELSE 55 + n

\* hexadecimal digits are code points: "0".."9" = 48..57, "a".."f" = 97..102
HexDigit(n) == IF n < 10 THEN 48 + n ELSE 87 + n

\* the value of a hexadecimal digit, -1 for any other character
HexValue(c) ==
    IF c >= 48 /\ c <= 57 THEN c - 48
    ELSE IF c >= 97 /\ c <= 102 THEN c - 87
    ELSE IF c >= 65 /\ c <= 70 THEN c - 55
    ELSE 0 - 1

RECURSIVE hexlify(_)
hexlify(b) ==
    IF b = <<>> THEN <<>>
    ELSE <<HexDigit(b[1] \div 16), HexDigit(b[1] % 16)>> \o hexlify(Tail(b))

\* binascii.unhexlify: [ok, data]; ok = FALSE is binascii.Error
RECURSIVE unhexlify(_)
unhexlify(h) ==
    IF h = <<>> THEN [ok |-> TRUE, data |-> <<>>]
    ELSE IF Len(h) = 1 \/ HexValue(h[1]) < 0 \/ HexValue(h[2]) < 0
    THEN [ok |-> FALSE, data |-> <<>>]
    ELSE LET rest == unhexlify(SubSeq(h, 3, Len(h)))
         IN IF rest.ok
            THEN [ok |-> TRUE, data |-> <<HexValue(h[1]) * 16 + HexValue(h[2])>> \o rest.data]
            ELSE rest

\* a variant of pack_s that does not pad a short payload
pack_s_nopad(length, data) ==
    IF length < 0 THEN [ok |-> FALSE, data |-> <<>>]
    ELSE [ok |-> TRUE, data |-> Take(data, length)]

\* a variant of pack_s that rejects a payload longer than the count
pack_s_strict(length, data) ==
    IF length < 0 \/ Len(data) > length THEN [ok |-> FALSE, data |-> <<>>]
    ELSE [ok |-> TRUE, data |-> data \o Rep(0, length - Len(data))]

\* struct.pack('{}{}s'.format(symbol, length), data): [ok, data]; the "s"
\* format cuts or zero-pads to the count; a negative count is a bad format
pack_s(length, data) ==
    IF length < 0 THEN [ok |-> FALSE, data |-> <<>>]
    ELSE [ok |-> TRUE, data |-> Take(data, length) \o Rep(0, length - Len(data))]

\* ----------------------------------------------- _Binary, hex and text
\* length NoLength stands for the default length=None of the writers
NoLength == 0 - 1

peek_hex(s, length) ==
    LET p == peek(s, length)
    IN [s |-> p.s, ok |-> TRUE, val |-> PyStr(hexlify(p.data))]

read_hex(s, length) ==
    LET r == read(s, length)
    IN [s |-> r.s, ok |-> TRUE, val |-> PyStr(hexlify(r.data))]

peek_text(s, length, encoding, error) ==
    LET p == peek(s, length)
        d == decode(p.data, encoding, error)
    IN [s |-> p.s, ok |-> d.ok, val |-> IF d.ok THEN PyStr(CutAtNul(d.text)) ELSE None]

read_text(s, length, encoding, error) ==
    LET r == read(s, length)
        d == decode(r.data, encoding, error)
    IN [s |-> r.s, ok |-> d.ok, val |-> IF d.ok THEN PyStr(CutAtNul(d.text)) ELSE None]

write_length(s, endian, data, length) ==
    IF length # NoLength
    THEN LET p == pack_s(length, data)
         IN IF p.ok THEN [s |-> write(s, p.data), ok |-> TRUE, val |-> None]
            ELSE [s |-> s, ok |-> FALSE, val |-> None]
    ELSE [s |-> write(s, data), ok |-> TRUE, val |-> None]

write_hex(s, endian, data, length) ==
    LET e == encode(data, "utf-8")
        u == unhexlify(e.data)
    IN IF e.ok /\ u.ok THEN write_length(s, endian, u.data, length)
       ELSE [s |-> s, ok |-> FALSE, val |-> None]

write_text(s, endian, data, encoding, length) ==
    LET e == encode(data, encoding)
    IN IF e.ok THEN write_length(s, endian, e.data, length)
       ELSE [s |-> s, ok |-> FALSE, val |-> None]

\* ---------------------------------------------------------------- Buffer
\* Buffer(initial_bytes, endian): the stream holds initial_bytes, the cursor
\* is at its start
Buffer(initial_bytes) == [buf |-> initial_bytes, pos |-> 0]

\* Buffer.from_hex(hex, endian): [s, ok, val]; ok = FALSE is the error of
\* hex.encode() or of binascii.unhexlify, and no buffer is made
from_hex(hex) ==
    LET e == encode(hex, "utf-8")
        u == unhexlify(e.data)
    IN IF e.ok /\ u.ok THEN [s |-> Buffer(u.data), ok |-> TRUE, val |-> None]
       ELSE [s |-> Buffer(<<>>), ok |-> FALSE, val |-> None]

\* value * length: the bytes value repeated length times, empty when length
\* is not positive
RECURSIVE Times(_, _)
Times(value, length) ==
    IF length <= 0 THEN <<>> ELSE value \o Times(value, length - 1)

\* fill(length, value=b'\x00'): self.write(value * length)
fill(s, length, value) ==
    [s |-> write(s, Times(value, length)), ok |-> TRUE, val |-> None]

\* a variant of __bytes__ that reads from the cursor, without seek(0)
Buffer_bytes_fromcursor(s) ==
    LET pointer == tell(s)
        r == read(s, 0 - 1)
    IN [s |-> seek(r.s, pointer), ok |-> TRUE, val |-> PyBytes(r.data)]

\* Buffer.__bytes__: tell, seek(0), read() to the end, seek back
Buffer_bytes(s) ==
    LET pointer == tell(s)
        r == read(seek(s, 0), 0 - 1)
    IN [s |-> seek(r.s, pointer), ok |-> TRUE, val |-> PyBytes(r.data)]

\* --------------------------------------------------------------- Wrapper
\* a method of the wrapped stream: on a closed stream it raises ValueError
\* and changes nothing, on an open one its outcome is r
OnStream(c, s, r) == IF c THEN [s |-> s, ok |-> FALSE, val |-> None] ELSE r

\* Wrapper.__getattr__("close")(): getattr(self._file_like, "close") is the
\* wrapped stream's own close, which closes it
Wrapper_close(c) == TRUE

\* del wrapper: Wrapper defines no __del__ and no close of its own, so the
\* wrapped stream is as it was
Wrapper_del(c) == c

\* ==== state machine ======================================================
VARIABLES
    buf,      \* the stream's bytes
    pos,      \* the stream's cursor
    endian,   \* self.endian, the profile bound at construction
    last,     \* the last call: its arguments, outcome and the stream before it
    wr,       \* the last successful write_T: its type, value and position
    nw,       \* number of write calls made
    other,    \* a second Buffer the caller builds from a hexadecimal string
    closed,   \* whether the stream has been closed
    wrapper   \* the Wrapper around the stream: "none", "attached", "discarded"

vars == <<buf, pos, endian, last, wr, nw, other, closed, wrapper>>

S == [buf |-> buf, pos |-> pos]

NoCall ==
    [op |-> "none", T |-> "", ok |-> TRUE, val |-> None, arg |-> None,
     length |-> 0, encoding |-> "", error |-> "", p0 |-> 0, b0 |-> <<>>]

NoWrite == [T |-> "", v |-> None, p |-> 0]

\* no second Buffer has been built
NoOther == [made |-> "none", hex |-> <<>>, ok |-> TRUE, buf |-> <<>>, pos |-> 0]

\* the call recorded in last', given the outcome r of the method
Called(op, T, r, arg, length, encoding, error) ==
    [op |-> op, T |-> T, ok |-> r.ok, val |-> r.val, arg |-> arg,
     length |-> length, encoding |-> encoding, error |-> error,
     p0 |-> pos, b0 |-> buf]

Returns(r) == buf' = r.s.buf /\ pos' = r.s.pos

\* ------------------------------------------------------- initial streams
\* the first n bytes of the pattern base, repeated as needed
Cyclic(base, n) == [i \in 1..n |-> base[((i - 1) % Len(base)) + 1]]

Bases ==
    { <<0, 1, 255, 128, 127, 254, 2, 0, 255>>,
      <<128, 0, 0, 0, 0, 0, 0, 0, 128>>,
      <<127, 255, 255, 255, 255, 255, 255, 255, 127>>,
      <<97, 98, 0, 99, 100, 195, 168, 46, 195, 169>>,
      <<195, 168, 46, 195, 169, 232, 0, 216, 255>> }

InitLengths == {0, 3, MaxLen - 1, MaxLen}

InitBufs == {Cyclic(base, n) : base \in Bases, n \in InitLengths}

InitBufsW == {<<>>, <<17, 34, 51, 68, 85, 102, 119, 136, 153>>}

\* Buffer(initial_bytes, endian): the cursor starts at 0
InitWith(bufs) ==
    /\ buf \in bufs
    /\ pos = 0
    /\ endian \in Profiles
    /\ last = NoCall
    /\ wr = NoWrite
    /\ nw = 0
    /\ other = NoOther
    /\ closed = FALSE
    /\ wrapper = "none"

Init == InitWith(InitBufs)

InitW == InitWith(InitBufsW)

\* ------------------------------------------------------------ arguments
HexLengths == {0, 3, MaxLen + 1}

TextLengths == {2, 5}

RawLengths == {0 - 1, 3}

Zero == PyInt(FALSE, <<>>)

One == PyInt(FALSE, <<1>>)

\* the bounds of the integer type of width w, and their neighbours
SMax(w) == PyInt(FALSE, <<127>> \o Rep(255, w - 1))

SMaxPlus1(w) == PyInt(FALSE, <<128>> \o Rep(0, w - 1))

SMin(w) == PyInt(TRUE, <<128>> \o Rep(0, w - 1))

SMinMinus1(w) == PyInt(TRUE, IF w = 1 THEN <<129>> ELSE <<128>> \o Rep(0, w - 2) \o <<1>>)

UMax(w) == PyInt(FALSE, Rep(255, w))

UMaxPlus1(w) == PyInt(FALSE, <<1>> \o Rep(0, w))

MinusOne == PyInt(TRUE, <<1>>)

InRangeValues(T) ==
    LET st == BIG_ENDIAN[T]
        w == st.size
    IN IF T = "bool" THEN {True, False}
       ELSE IF Signed(st)
       THEN {SMin(w), SMax(w), One} \cup (IF w > 1 THEN {PyInt(TRUE, <<1, 2>>)} ELSE {})
       ELSE {Zero, UMax(w), One} \cup (IF w > 1 THEN {PyInt(FALSE, <<1, 2>>)} ELSE {})

BadValues(T) ==
    LET st == BIG_ENDIAN[T]
        w == st.size
    IN IF T = "bool" THEN {}
       ELSE IF Signed(st)
       THEN {SMinMinus1(w), SMaxPlus1(w), PyStr(<<97>>)}
       ELSE {MinusOne, UMaxPlus1(w), PyStr(<<97>>)}

Values(T) == InRangeValues(T) \cup BadValues(T)

\* -------------------------------------------------------------- actions
Seek(position) ==
    /\ Returns([s |-> seek(S, position)])
    /\ last' = Called("seek", "", [ok |-> TRUE, val |-> None], None, position, "", "")
    /\ UNCHANGED <<endian, wr, nw, other, closed, wrapper>>

Peek(length) ==
    LET p == peek(S, length)
        r == [s |-> p.s, ok |-> TRUE, val |-> PyBytes(p.data)]
    IN /\ Returns(r)
       /\ last' = Called("peek", "raw", r, None, length, "", "")
       /\ UNCHANGED <<endian, wr, nw, other, closed, wrapper>>

Read(length) ==
    LET d == read(S, length)
        r == [s |-> d.s, ok |-> TRUE, val |-> PyBytes(d.data)]
    IN /\ Returns(r)
       /\ last' = Called("read", "raw", r, None, length, "", "")
       /\ UNCHANGED <<endian, wr, nw, other, closed, wrapper>>

PeekT(T) ==
    LET r == peek_T(S, endian, T)
    IN /\ Returns(r)
       /\ last' = Called("peek", T, r, None, endian[T].size, "", "")
       /\ UNCHANGED <<endian, wr, nw, other, closed, wrapper>>

ReadT(T) ==
    LET r == read_T(S, endian, T)
    IN /\ Returns(r)
       /\ last' = Called("read", T, r, None, endian[T].size, "", "")
       /\ UNCHANGED <<endian, wr, nw, other, closed, wrapper>>

PeekHex(length) ==
    LET r == peek_hex(S, length)
    IN /\ Returns(r)
       /\ last' = Called("peek", "hex", r, None, length, "", "")
       /\ UNCHANGED <<endian, wr, nw, other, closed, wrapper>>

ReadHex(length) ==
    LET r == read_hex(S, length)
    IN /\ Returns(r)
       /\ last' = Called("read", "hex", r, None, length, "", "")
       /\ UNCHANGED <<endian, wr, nw, other, closed, wrapper>>

PeekText(length, encoding, error) ==
    LET r == peek_text(S, length, encoding, error)
    IN /\ Returns(r)
       /\ last' = Called("peek", "text", r, None, length, encoding, error)
       /\ UNCHANGED <<endian, wr, nw, other, closed, wrapper>>

ReadText(length, encoding, error) ==
    LET r == read_text(S, length, encoding, error)
    IN /\ Returns(r)
       /\ last' = Called("read", "text", r, None, length, encoding, error)
       /\ UNCHANGED <<endian, wr, nw, other, closed, wrapper>>

WriteT(T, data) ==
    LET r == write_T(S, endian, T, data)
    IN /\ nw < MaxWrites
       /\ nw' = nw + 1
       /\ Returns(r)
       /\ last' = Called("write", T, r, data, endian[T].size, "", "")
       /\ wr' = IF r.ok THEN [T |-> T, v |-> data, p |-> pos] ELSE wr
       /\ UNCHANGED <<endian, other, closed, wrapper>>

WriteLength(data, length) ==
    LET r == write_length(S, endian, data, length)
    IN /\ nw < MaxWrites
       /\ nw' = nw + 1
       /\ Returns(r)
       /\ last' = Called("write", "length", r, PyBytes(data), length, "", "")
       /\ UNCHANGED <<endian, wr, other, closed, wrapper>>

WriteHex(data, length) ==
    LET r == write_hex(S, endian, data, length)
    IN /\ nw < MaxWrites
       /\ nw' = nw + 1
       /\ Returns(r)
       /\ last' = Called("write", "hex", r, PyStr(data), length, "", "")
       /\ UNCHANGED <<endian, wr, other, closed, wrapper>>

WriteText(data, encoding, length) ==
    LET r == write_text(S, endian, data, encoding, length)
    IN /\ nw < MaxWrites
       /\ nw' = nw + 1
       /\ Returns(r)
       /\ last' = Called("write", "text", r, PyStr(data), length, encoding, "")
       /\ UNCHANGED <<endian, wr, other, closed, wrapper>>

\* ---------------------------------------------------------- read model
Next ==
    \/ \E position \in 0..MaxSeek : Seek(position)
    \/ \E length \in RawLengths : Peek(length)
    \/ \E length \in RawLengths : Read(length)
    \/ \E T \in Types : PeekT(T)
    \/ \E T \in Types : ReadT(T)
    \/ \E length \in HexLengths : PeekHex(length)
    \/ \E length \in HexLengths : ReadHex(length)
    \/ \E length \in TextLengths, encoding \in Encodings, error \in ErrorPolicies :
          PeekText(length, encoding, error)
    \/ \E length \in TextLengths, encoding \in Encodings, error \in ErrorPolicies :
          ReadText(length, encoding, error)

Spec == Init /\ [][Next]_vars

\* --------------------------------------------------------- write model
NextW ==
    \/ \E position \in 0..MaxSeekW : Seek(position)
    \/ \E T \in Types : \E data \in Values(T) : WriteT(T, data)

SpecW == InitW /\ [][NextW]_vars

\* ----------------------------------------------------- round-trip model
\* the caller reads a value of the type it last wrote
ReadBack(T) == wr.T = T /\ ReadT(T)

NextRT ==
    \/ \E position \in 0..MaxSeekW : Seek(position)
    \/ \E T \in Types : \E data \in InRangeValues(T) : WriteT(T, data)
    \/ \E T \in Types : ReadBack(T)

InitRT == InitWith({<<17, 34, 51, 68, 85, 102, 119, 136, 153>>})

SpecRT == InitRT /\ [][NextRT]_vars

\* ------------------------------------------------- framed-write model
\* payloads: b"", one byte, three bytes
Payloads == {<<>>, <<7>>, <<7, 8, 9>>}

\* "ab", "\u00e8.\u00e9", "a\u20ac"
Texts == {<<97, 98>>, <<232, 46, 233>>, <<97, 8364>>}

\* "0001ff", "0001f" (odd length), "0g" (not hexadecimal)
HexStrings == {<<48, 48, 48, 49, 102, 102>>, <<48, 48, 48, 49, 102>>, <<48, 103>>}

WriteLengths == {NoLength, 0, 1, 2, 4}

TextWriteLengths == {NoLength, 1, 4}

NextF ==
    \/ \E position \in 0..MaxSeekW : Seek(position)
    \/ \E data \in Payloads, length \in WriteLengths : WriteLength(data, length)
    \/ \E data \in HexStrings, length \in TextWriteLengths : WriteHex(data, length)
    \/ \E data \in Texts, encoding \in Encodings, length \in TextWriteLengths :
          WriteText(data, encoding, length)

SpecF == InitW /\ [][NextF]_vars

\* ---------------------------------------------------- hex round-trip model
\* the second Buffer, as a call on it leaves it
Built(made, hex, r) ==
    [made |-> made, hex |-> hex, ok |-> r.ok, buf |-> r.s.buf, pos |-> r.s.pos]

\* the string the last read_hex returned
HexRead == last.op = "read" /\ last.T = "hex" /\ last.ok

\* other = Buffer(); other.write_hex(h), h the string read_hex returned
WriteHexOther ==
    /\ HexRead
    /\ other' = Built("write_hex", last.val.dig,
                      write_hex(Buffer(<<>>), endian, last.val.dig, NoLength))
    /\ UNCHANGED <<buf, pos, endian, last, wr, nw, closed, wrapper>>

\* other = Buffer.from_hex(h), h the string read_hex returned
FromHexOther ==
    /\ HexRead
    /\ other' = Built("from_hex", last.val.dig, from_hex(last.val.dig))
    /\ UNCHANGED <<buf, pos, endian, last, wr, nw, closed, wrapper>>

\* 01 23 45 67 89 ab cd ef 10: every hexadecimal digit in both places
InitBufsH ==
    InitBufs \cup {Cyclic(<<1, 35, 69, 103, 137, 171, 205, 239, 16>>, n) : n \in InitLengths}

InitH == InitWith(InitBufsH)

HexReadLengths == HexLengths \cup {MaxLen - 1, MaxLen}

NextH ==
    \/ Seek(0)
    \/ \E length \in HexReadLengths : ReadHex(length)
    \/ WriteHexOther
    \/ FromHexOther

SpecH == InitH /\ [][NextH]_vars

\* ----------------------------------------------------------- buffer model
Fill(length, value) ==
    LET r == fill(S, length, value)
    IN /\ nw < MaxWrites
       /\ nw' = nw + 1
       /\ Returns(r)
       /\ last' = Called("fill", "", r, PyBytes(value), length, "", "")
       /\ UNCHANGED <<endian, wr, other, closed, wrapper>>

\* bytes(buffer)
Bytes ==
    LET r == Buffer_bytes(S)
    IN /\ Returns(r)
       /\ last' = Called("bytes", "", r, None, NoLength, "", "")
       /\ UNCHANGED <<endian, wr, nw, other, closed, wrapper>>

FillLengths == {0, 3}

\* b'\x00' (the default), b'\xff', b'\x01\x02'
FillValues == {<<0>>, <<255>>, <<1, 2>>}

NextB ==
    \/ \E position \in 0..MaxSeekW : Seek(position)
    \/ \E length \in RawLengths : Read(length)
    \/ \E length \in RawLengths : Peek(length)
    \/ WriteT("short", SMin(2))
    \/ \E length \in FillLengths, value \in FillValues : Fill(length, value)
    \/ Bytes

SpecB == InitW /\ [][NextB]_vars

\* ---------------------------------------------------------- wrapper model
\* f = open stream; w = Wrapper(f, endian): both start at the stream's start
InitWr ==
    /\ buf \in InitBufsW
    /\ pos = 0
    /\ endian \in Profiles
    /\ last = NoCall
    /\ wr = NoWrite
    /\ nw = 0
    /\ other = NoOther
    /\ closed = FALSE
    /\ wrapper = "attached"

\* w.seek(position), delegated by __getattr__
WrapperSeek(position) ==
    LET r == OnStream(closed, S, [s |-> seek(S, position), ok |-> TRUE, val |-> None])
    IN /\ wrapper = "attached"
       /\ Returns(r)
       /\ last' = Called("seek", "", r, None, position, "", "")
       /\ UNCHANGED <<endian, wr, nw, other, closed, wrapper>>

\* w.read_T(), whose self.read is delegated by __getattr__
WrapperReadT(T) ==
    LET r == OnStream(closed, S, read_T(S, endian, T))
    IN /\ wrapper = "attached"
       /\ Returns(r)
       /\ last' = Called("read", T, r, None, endian[T].size, "", "")
       /\ UNCHANGED <<endian, wr, nw, other, closed, wrapper>>

\* w.peek_T(), whose self.tell, self.read and self.seek are delegated
WrapperPeekT(T) ==
    LET r == OnStream(closed, S, peek_T(S, endian, T))
    IN /\ wrapper = "attached"
       /\ Returns(r)
       /\ last' = Called("peek", T, r, None, endian[T].size, "", "")
       /\ UNCHANGED <<endian, wr, nw, other, closed, wrapper>>

\* w.write_T(data), whose self.write is delegated
WrapperWriteT(T, data) ==
    LET r == OnStream(closed, S, write_T(S, endian, T, data))
    IN /\ wrapper = "attached"
       /\ nw < MaxWrites
       /\ nw' = nw + 1
       /\ Returns(r)
       /\ last' = Called("write", T, r, data, endian[T].size, "", "")
       /\ UNCHANGED <<endian, wr, other, closed, wrapper>>

\* w.close(), delegated by __getattr__
WrapperClose ==
    /\ wrapper = "attached"
    /\ closed' = Wrapper_close(closed)
    /\ last' = Called("close", "", [ok |-> TRUE, val |-> None], None, 0, "", "")
    /\ UNCHANGED <<buf, pos, endian, wr, nw, other, wrapper>>

\* del w: the Wrapper is discarded
WrapperDiscard ==
    /\ wrapper = "attached"
    /\ wrapper' = "discarded"
    /\ closed' = Wrapper_del(closed)
    /\ last' = Called("del", "", [ok |-> TRUE, val |-> None], None, 0, "", "")
    /\ UNCHANGED <<buf, pos, endian, wr, nw, other>>

\* f.read(length): the owner reads from its stream itself
OwnerRead(length) ==
    LET d == read(S, length)
        r == OnStream(closed, S, [s |-> d.s, ok |-> TRUE, val |-> PyBytes(d.data)])
    IN /\ Returns(r)
       /\ last' = Called("owner_read", "raw", r, None, length, "", "")
       /\ UNCHANGED <<endian, wr, nw, other, closed, wrapper>>

WrapperTypes == {"ubyte", "short"}

NextWr ==
    \/ \E position \in 0..MaxSeekW : WrapperSeek(position)
    \/ \E T \in WrapperTypes : WrapperReadT(T)
    \/ \E T \in WrapperTypes : WrapperPeekT(T)
    \/ \E T \in WrapperTypes : \E data \in {One, UMaxPlus1(1)} : WrapperWriteT(T, data)
    \/ WrapperClose
    \/ WrapperDiscard
    \/ \E length \in RawLengths : OwnerRead(length)

SpecWr == InitWr /\ [][NextWr]_vars

\* ==== properties =========================================================
\* width(T) of the specification's type table
width(T) ==
    CASE T \in {"bool", "byte", "ubyte"} -> 1
      [] T \in {"short", "ushort"} -> 2
      [] T \in {"int", "uint"} -> 4
      [] T \in {"long", "ulong"} -> 8

Remaining == IF Len(buf) > pos THEN Len(buf) - pos ELSE 0

\* the bytes of the stream b at offsets [p, p + n)
Slice(b, p, n) == SubSeq(b, p + 1, p + n)

\* two calls of the same operation family with the same arguments
SameArgs(c, d) ==
    /\ c.T = d.T /\ c.length = d.length
    /\ c.encoding = d.encoding /\ c.error = d.error

\* the bytes a read of call c consumes from the current state: width(T) for
\* the fixed-width types, the requested length as far as the stream reaches
\* for peek/read, hex and text
C1_Consumed(c) ==
    IF c.T \in Types THEN width(c.T)
    ELSE IF c.length < 0 THEN Remaining
    ELSE Min(c.length, Remaining)

\* C1: a successful peek leaves the cursor and the contents as they were; a
\* peek or read with the same arguments issued right after a successful peek
\* succeeds with the same value, and the read leaves the cursor at
\* p + width(T) and the contents unchanged
C1_PeekIdempotent ==
    [][ /\ (last'.op = "peek" /\ last'.ok) => (pos' = pos /\ buf' = buf)
        /\ (/\ last.op = "peek" /\ last.ok
            /\ last'.op \in {"peek", "read"} /\ SameArgs(last, last'))
           => /\ last'.ok
              /\ last'.val = last.val
              /\ buf' = buf
              /\ last'.op = "read" => pos' = pos + C1_Consumed(last)
              /\ last'.op = "peek" => pos' = pos ]_vars

C1_Witness ==
    /\ last.op = "peek" /\ last.ok /\ last.T = "long"
    /\ last.p0 = 1 /\ pos = 1 /\ Len(buf) = 9
    /\ last.val.neg

\* C2: a peek that fails leaves the cursor (and the contents) as before
C2_PeekFailureRestores ==
    (last.op = "peek" /\ ~last.ok) => (pos = last.p0 /\ buf = last.b0)

C2_Witness ==
    /\ last.op = "peek" /\ ~last.ok /\ last.T = "int"
    /\ Len(buf) - pos = 3

\* C3: a fixed-width read or peek returns a value exactly when width(T) bytes
\* remain at the cursor; the value is the decoding of exactly those bytes (it
\* encodes back to them) and a read leaves the cursor at p + width(T); with
\* fewer bytes, none at the end of the stream included, the call fails
C3_ReadNeedsFullWidth ==
    (last.op \in {"peek", "read"} /\ last.T \in Types) =>
        LET w == width(last.T)
            bytes == Slice(last.b0, last.p0, w)
        IN /\ last.ok <=> last.p0 + w <= Len(last.b0)
           /\ last.ok =>
                /\ Len(bytes) = w
                /\ IF last.T = "bool"
                   THEN last.val = PyBool(bytes[1] # 0)
                   ELSE /\ last.val.kind = "int"
                        /\ pack(endian[last.T], last.val) = [ok |-> TRUE, data |-> bytes]
                /\ last.op = "read" => pos = last.p0 + w
           /\ buf = last.b0

C3_Witness ==
    /\ last.op = "read" /\ ~last.ok /\ last.T = "long"
    /\ Len(buf) = 8 /\ last.p0 = 8

\* ---- write properties
\* magnitude comparison a <= b on digit strings without leading zeros
RECURSIVE LexLeq(_, _)
LexLeq(a, b) ==
    IF a = <<>> THEN TRUE
    ELSE IF a[1] # b[1] THEN a[1] < b[1]
    ELSE LexLeq(Tail(a), Tail(b))

MagLeq(a, b) == Len(a) < Len(b) \/ (Len(a) = Len(b) /\ LexLeq(a, b))

\* the representable range of the integer types: largest magnitude of a
\* non-negative and of a negative value
RangeTable ==
    [byte |-> [hi |-> <<127>>, lo |-> <<128>>],
     ubyte |-> [hi |-> <<255>>, lo |-> <<>>],
     short |-> [hi |-> <<127, 255>>, lo |-> <<128, 0>>],
     ushort |-> [hi |-> <<255, 255>>, lo |-> <<>>],
     int |-> [hi |-> <<127, 255, 255, 255>>, lo |-> <<128, 0, 0, 0>>],
     uint |-> [hi |-> <<255, 255, 255, 255>>, lo |-> <<>>],
     long |-> [hi |-> <<127, 255, 255, 255, 255, 255, 255, 255>>,
               lo |-> <<128, 0, 0, 0, 0, 0, 0, 0>>],
     ulong |-> [hi |-> <<255, 255, 255, 255, 255, 255, 255, 255>>, lo |-> <<>>]]

Representable(T, v) ==
    /\ v.kind = "int"
    /\ IF v.neg THEN MagLeq(v.dig, RangeTable[T].lo) ELSE MagLeq(v.dig, RangeTable[T].hi)

\* a + b on big-endian digit strings of one width, modulo 256^width
RECURSIVE SumBE(_, _, _)
SumBE(a, b, carry) ==
    IF a = <<>> THEN <<>>
    ELSE LET n == Len(a)
             t == a[n] + b[n] + carry
         IN SumBE(SubSeq(a, 1, n - 1), SubSeq(b, 1, n - 1), t \div 256) \o <<t % 256>>

\* be is the w-byte two's-complement representation of v, most significant
\* byte first: v itself when v >= 0, and be + |v| = 256^w when v < 0
IsTwosComplementBE(be, v) ==
    LET w == Len(be)
        mag == Rep(0, w - Len(v.dig)) \o v.dig
    IN IF v.neg THEN be[1] >= 128 /\ SumBE(be, mag, 0) = Rep(0, w)
       ELSE be = mag

WroteT == last.op = "write" /\ last.T \in Types

\* C4: a successful write_T(v) at cursor p of a stream of length n puts
\* encode_T(v) at offsets [p, p + width(T)), leaves every other byte of the
\* stream as it was (a gap beyond the old end reads as zero), makes the
\* length max(n, p + width(T)) and leaves the cursor at p + width(T)
C4_WriteFrame ==
    (WroteT /\ last.ok) =>
        LET p == last.p0
            n == Len(last.b0)
            w == width(last.T)
        IN /\ Slice(buf, p, w) = pack(endian[last.T], last.arg).data
           /\ Len(Slice(buf, p, w)) = w
           /\ Len(buf) = (IF n > p + w THEN n ELSE p + w)
           /\ pos = p + w
           /\ \A i \in 1..Len(buf) :
                (i <= p \/ i > p + w) => buf[i] = (IF i <= n THEN last.b0[i] ELSE 0)

C4_Witness ==
    /\ WroteT /\ last.ok /\ last.T = "short"
    /\ last.p0 = 1 /\ Len(last.b0) = 9 /\ Len(buf) = 9 /\ pos = 3
    /\ buf[1] = 17 /\ buf[4] = 68

\* C5: an integer write whose value is outside the type's range, or is not
\* a number, fails; a failed write leaves contents and cursor as they were
C5_RangeRejected ==
    (last.op = "write" /\ last.T \in IntTypes) =>
        /\ ~Representable(last.T, last.arg) => ~last.ok
        /\ ~last.ok => (buf = last.b0 /\ pos = last.p0)

C5_Witness ==
    /\ last.op = "write" /\ last.T = "byte" /\ ~last.ok
    /\ last.arg = PyInt(FALSE, <<128>>)
    /\ last.p0 = 1 /\ Len(buf) = 9

\* C7: a written integer is its two's-complement representation, most
\* significant byte first under the big-endian profile and in exactly the
\* reverse order under the little-endian one (1 as int is 00 00 00 01 and
\* 01 00 00 00); each reads back under its own profile; the one-byte types
\* are written alike under both profiles
C7_Endianness ==
    (WroteT /\ last.ok) =>
        LET T == last.T
            v == last.arg
            written == Slice(buf, last.p0, width(T))
            big == pack(BIG_ENDIAN[T], v).data
            little == pack(LITTLE_ENDIAN[T], v).data
        IN /\ written = (IF endian = BIG_ENDIAN THEN big ELSE little)
           /\ little = Reverse(big)
           /\ width(T) = 1 => little = big
           /\ IF T = "bool" THEN big = (IF v = True THEN <<1>> ELSE <<0>>)
              ELSE IsTwosComplementBE(big, v)
           /\ unpack(endian[T], written) = [ok |-> TRUE, val |-> v]
           /\ (T = "int" /\ v = One) =>
                written = (IF endian = BIG_ENDIAN THEN <<0, 0, 0, 1>> ELSE <<1, 0, 0, 0>>)

C7_Witness ==
    /\ WroteT /\ last.ok /\ last.T = "int" /\ last.arg = One
    /\ endian = LITTLE_ENDIAN
    /\ Slice(buf, last.p0, 4) = <<1, 0, 0, 0>>

\* C6: write_T(v) at position p, seek(p), read_T() returns v, for bool and
\* every integer type, both profiles and the bounds of each range
C6_RoundTrip ==
    (last.op = "read" /\ wr.T # "" /\ last.T = wr.T /\ last.p0 = wr.p) =>
        (last.ok /\ last.val = wr.v)

C6_Witness ==
    /\ last.op = "read" /\ last.ok /\ last.T = "long" /\ wr.T = "long"
    /\ last.p0 = wr.p /\ wr.p = 1
    /\ wr.v = SMin(8) /\ last.val = SMin(8)
    /\ endian = LITTLE_ENDIAN

\* ---- framing properties
WroteFramed == last.op = "write" /\ last.T \in {"length", "hex", "text"}

\* the encoded payload of the last framed write
Payload ==
    CASE last.T = "length" -> last.arg.dig
      [] last.T = "text" -> encode(last.arg.dig, last.encoding).data
      [] last.T = "hex" -> unhexlify(last.arg.dig).data

\* the last call wrote exactly the bytes w at its starting cursor: they
\* stand at [p, p + Len(w)), the cursor is behind them, the stream has grown
\* to hold them and no other byte has changed
WroteExactly(w) ==
    LET p == last.p0
        n == Len(last.b0)
        k == Len(w)
    IN /\ pos = p + k
       /\ k > 0 => /\ Slice(buf, p, k) = w
                   /\ Len(buf) = (IF n > p + k THEN n ELSE p + k)
                   /\ \A i \in 1..Len(buf) :
                        (i <= p \/ i > p + k) => buf[i] = (IF i <= n THEN last.b0[i] ELSE 0)
       /\ k = 0 => buf = last.b0

\* C8: a framed write with length L writes exactly L bytes and advances the
\* cursor by L: the payload followed by zero bytes when it is shorter (text
\* "ab" with L = 4 gives 61 62 00 00), its first L bytes when it is longer
\* (hex "0001ff" with L = 1 gives 00); without a length the payload is
\* written as given
C8_FixedLengthFraming ==
    (WroteFramed /\ last.ok) =>
        LET L == last.length
        IN /\ L # NoLength =>
                WroteExactly([i \in 1..L |-> IF i <= Len(Payload) THEN Payload[i] ELSE 0])
           /\ L = NoLength => WroteExactly(Payload)
           /\ (last.T = "text" /\ last.arg.dig = <<97, 98>> /\ L = 4
                 /\ last.encoding \in {"utf-8", "iso-8859-1"})
                => Slice(buf, last.p0, 4) = <<97, 98, 0, 0>>
           /\ (last.T = "hex" /\ last.arg.dig = <<48, 48, 48, 49, 102, 102>> /\ L = 1)
                => Slice(buf, last.p0, 1) = <<0>>

C8_Witness ==
    /\ WroteFramed /\ last.ok /\ last.T = "text" /\ last.encoding = "utf-8"
    /\ last.arg.dig = <<97, 98>> /\ last.length = 4
    /\ last.p0 = 1 /\ Len(last.b0) = 9
    /\ Slice(buf, 1, 4) = <<97, 98, 0, 0>> /\ pos = 5

Overlong == WroteFramed /\ last.length # NoLength /\ Len(Payload) > last.length

\* C9 as stated: a framed write whose payload is longer than its length is
\* rejected and writes nothing
C9_OverlongRejected ==
    Overlong => (~last.ok /\ buf = last.b0 /\ pos = last.p0)

\* C9 as the code has it: a framed write whose payload is longer than its
\* length L succeeds and writes exactly the first L bytes of the payload
C9_OverlongTruncated ==
    Overlong => (last.ok /\ WroteExactly(SubSeq(Payload, 1, last.length)))

C9_Witness ==
    /\ Overlong /\ last.ok /\ last.T = "hex"
    /\ last.arg.dig = <<48, 48, 48, 49, 102, 102>> /\ last.length = 1
    /\ Len(last.b0) = 9 /\ Len(buf) = 9
    /\ last.p0 = 1 /\ pos = 2 /\ buf[2] = 0 /\ last.b0[2] = 34

\* ---- text properties
\* C10: read_text(length) consumes the length bytes at the cursor (as many
\* as remain when fewer do) and returns the decoded text up to, and without,
\* its first NUL character, or all of it when it holds none ("ab\0cd" gives
\* "ab"); peek_text returns the same and leaves the cursor where it was
C10_NulTruncation ==
    (last.op \in {"peek", "read"} /\ last.T = "text") =>
        LET avail == IF Len(last.b0) > last.p0 THEN Len(last.b0) - last.p0 ELSE 0
            k == Min(last.length, avail)
            d == decode(Slice(last.b0, last.p0, k), last.encoding, last.error)
            t == last.val.dig
        IN /\ buf = last.b0
           /\ pos = (IF last.op = "read" THEN last.p0 + k ELSE last.p0)
           /\ (last.op = "read" /\ last.length <= avail) => pos = last.p0 + last.length
           /\ last.ok = d.ok
           /\ last.ok =>
                /\ last.val.kind = "str"
                /\ Len(t) <= Len(d.text)
                /\ \A i \in 1..Len(t) : t[i] = d.text[i] /\ t[i] # 0
                /\ Len(t) < Len(d.text) => d.text[Len(t) + 1] = 0
                /\ d.text = <<97, 98, 0, 99, 100>> => t = <<97, 98>>

C10_Witness ==
    /\ last.op = "read" /\ last.T = "text" /\ last.ok
    /\ last.encoding = "utf-8" /\ last.length = 5 /\ last.p0 = 0
    /\ Len(last.b0) >= 5
    /\ Slice(last.b0, 0, 5) = <<97, 98, 0, 99, 100>>
    /\ last.val = PyStr(<<97, 98>>) /\ pos = 5

\* ---- hex properties
\* "0123456789abcdef"
LowerHexDigits == <<48, 49, 50, 51, 52, 53, 54, 55, 56, 57, 97, 98, 99, 100, 101, 102>>

\* h is the lowercase rendering of b: two digits per byte, no separators
IsLowerHexOf(h, b) ==
    /\ Len(h) = 2 * Len(b)
    /\ \A i \in 1..Len(b) :
          /\ h[2 * i - 1] = LowerHexDigits[(b[i] \div 16) + 1]
          /\ h[2 * i] = LowerHexDigits[(b[i] % 16) + 1]

\* the last call was read_hex(n) from the start of a buffer of n bytes
ReadWholeAsHex ==
    /\ last.op = "read" /\ last.T = "hex"
    /\ last.p0 = 0 /\ last.length = Len(last.b0)

\* the second Buffer was built from the string that call returned
BuiltFromIt == other.made \in {"write_hex", "from_hex"} /\ other.hex = last.val.dig

\* C11: read_hex(n) from the start of a buffer holding the n bytes B returns
\* the lowercase hexadecimal rendering of B (00 01 FF gives "0001ff"); an
\* empty buffer into which that string is written with write_hex, and the
\* buffer Buffer.from_hex makes of it, hold exactly B
C11_HexRoundTrip ==
    ReadWholeAsHex =>
        /\ last.ok
        /\ last.val.kind = "str"
        /\ IsLowerHexOf(last.val.dig, last.b0)
        /\ (last.b0 = <<0, 1, 255>> => last.val.dig = <<48, 48, 48, 49, 102, 102>>)
        /\ BuiltFromIt => other.ok /\ other.buf = last.b0

C11_Witness ==
    /\ ReadWholeAsHex
    /\ last.b0 = <<0, 1, 255>>
    /\ other.made = "write_hex"
    /\ other.hex = <<48, 48, 48, 49, 102, 102>>
    /\ other.buf = <<0, 1, 255>>

C11_WitnessFromHex ==
    /\ ReadWholeAsHex
    /\ Len(last.b0) = MaxLen
    /\ other.made = "from_hex"
    /\ other.hex = last.val.dig
    /\ other.buf = buf

\* C12: read_hex(length) and peek_hex(length) return a string of exactly
\* 2*length hexadecimal characters or fail; when fewer than length bytes
\* remain they fail instead of returning a shorter string
C12_HexExactOrFail ==
    (last.op \in {"peek", "read"} /\ last.T = "hex") =>
        /\ last.ok => Len(last.val.dig) = 2 * last.length
        /\ Len(last.b0) - last.p0 < last.length => ~last.ok

\* ---- buffer properties
\* b is b0 with the n bytes of value, repeated, written at p
FilledWith(b, b0, p, n, value) ==
    /\ Len(b) = Max(Len(b0), p + n)
    /\ \A i \in 1..Len(b) :
          b[i] = IF i > p /\ i <= p + n THEN value[((i - p - 1) % Len(value)) + 1]
                 ELSE IF i <= Len(b0) THEN b0[i]
                 ELSE 0

\* C13: a successful fill(length, value) at position p leaves the cursor at
\* p + length having written exactly length bytes, value repeated, for the
\* default zero byte and for any other value; a value whose size does not
\* evenly divide length makes fill fail
C13_FillExact ==
    last.op = "fill" =>
        /\ last.ok =>
              /\ pos = last.p0 + last.length
              /\ last.length > 0 =>
                    FilledWith(buf, last.b0, last.p0, last.length, last.arg.dig)
              /\ last.length = 0 => buf = last.b0
        /\ last.length % Len(last.arg.dig) # 0 => ~last.ok

\* C14: bytes(buffer), after any reads, writes, peeks, fills and seeks,
\* returns the complete contents from offset 0 to the end, and leaves the
\* cursor where it was and the contents as they were
C14_Snapshot ==
    last.op = "bytes" =>
        /\ last.ok
        /\ last.val = PyBytes(last.b0)
        /\ pos = last.p0
        /\ buf = last.b0

C14_Witness ==
    /\ last.op = "bytes"
    /\ nw > 0
    /\ pos > 0 /\ pos < Len(buf)
    /\ last.val = PyBytes(buf)

\* the snapshot with the cursor beyond the end of the contents
C14_WitnessBeyondEnd ==
    /\ last.op = "bytes"
    /\ pos > Len(buf)
    /\ last.val = PyBytes(buf)

\* ---- wrapper properties
\* C15: whatever is invoked on a Wrapper (codec operations, delegated raw
\* cursor operations including close, discarding the Wrapper), the wrapped
\* stream is still open and its owner can use it
C15_NeverClosed ==
    /\ ~closed
    /\ last.op = "owner_read" => last.ok

\* short of close, the operations on a Wrapper leave the stream open
C15_OpenUnlessClose == [][last'.op # "close" => closed' = closed]_vars

C15_DiscardedOpen ==
    /\ wrapper = "discarded"
    /\ nw > 0
    /\ last.op = "owner_read" /\ last.ok /\ Len(last.val.dig) > 0

\* ---- partial-tail properties
\* the last call was a fixed-width call on T with r bytes left, 0 < r < width(T)
PartialTail ==
    /\ last.T \in Types
    /\ Len(last.b0) - last.p0 > 0
    /\ Len(last.b0) - last.p0 < width(last.T)

\* C16: a read_T with 0 < r < width(T) bytes left fails having consumed the
\* r bytes: the cursor is at the end of the stream, p + r, not at p, and
\* the contents are unchanged; a peek_T there fails and restores p
C16_FailedReadConsumes ==
    /\ (last.op = "read" /\ PartialTail) =>
          /\ ~last.ok
          /\ pos = last.p0 + (Len(last.b0) - last.p0)
          /\ pos = Len(buf)
          /\ pos # last.p0
          /\ buf = last.b0
    /\ (last.op = "peek" /\ PartialTail) =>
          /\ ~last.ok
          /\ pos = last.p0
          /\ buf = last.b0

C16_Witness ==
    /\ last.op = "read" /\ last.T = "int" /\ ~last.ok
    /\ Len(last.b0) - last.p0 = 3
    /\ pos = last.p0 + 3

====
